---- MODULE Spec2Model ----
(***************************************************************************)
(* Model of the matching engine of codecrafters-grep-rust                  *)
(* (src/src/grep/mod.rs): match_pattern and everything it calls.           *)
(*                                                                         *)
(* Strings are sequences of byte values.  All bytes of the model are ASCII *)
(* so a byte offset is a character offset (char_indices yields 0..len-1).  *)
(* A Rust panic (index out of range, subtraction overflow, expect on None) *)
(* is the outcome Panic; a Result is Ok(v) or Err(byte).                   *)
(***************************************************************************)
EXTENDS Integers, Sequences, FiniteSets

VARIABLES
    input_line,     \* argument of match_pattern
    pattern,        \* argument of match_pattern
    pc,             \* position in the call tree
    caller,         \* who called match_characters_exact
    iter_i,         \* loop variable i of match_characters_iterate
    exact_offset,   \* offset in input_line of the slice given to match_characters_exact
    exact_input,    \* argument input_line of match_characters_exact
    exact_pattern,  \* argument pattern of match_characters_exact
    input_index,    \* local of match_characters_exact
    pattern_index,  \* local of match_characters_exact
    exact_ret,      \* value returned by match_characters_exact
    steps,          \* the loop iterations match_characters_exact has run in this call
    attempts,       \* the calls of match_characters_exact that returned, in order
    result          \* value returned by match_pattern

vars == <<input_line, pattern, pc, caller, iter_i, exact_offset, exact_input,
          exact_pattern, input_index, pattern_index, exact_ret, steps, attempts, result>>

----------------------------------------------------------------------------
(* Bounds of the model *)

MaxInputLen == 3
MaxPatternLen == 3
MaxGroupLen == 4

----------------------------------------------------------------------------
(* Byte constants *)

CHARACTER_CLASS == 92
CHARACTER_ALPHA == 119
CHARACTER_DIGIT == 100
START_ANCHOR == 94
END_ANCHOR == 36
ONE_OR_MORE == 43
ZERO_OR_ONE == 63
OPEN_BRACKET == 91
CLOSE_BRACKET == 93
LETTER_A == 97
DIGIT_1 == 49

----------------------------------------------------------------------------
(* Results *)

Ok(v) == [tag |-> "Ok", val |-> v]
Err(b) == [tag |-> "Err", val |-> b]
Panic == [tag |-> "Panic", val |-> 0]
None == [tag |-> "None", val |-> 0]

IsOk(r, b) == r.tag = "Ok" /\ r.val = b

Positive(p, i) == [tag |-> "Positive", pattern_chars |-> p, input_chars |-> i]
Negative == [tag |-> "Negative", pattern_chars |-> 0, input_chars |-> 0]

MatchResult_new(res, pattern_chars, input_chars) ==
    IF res THEN Positive(pattern_chars, input_chars) ELSE Negative

MatchResult_is_matching(r) == r.tag = "Positive"

Slice(s, from, to) == SubSeq(s, from + 1, to)

SliceFrom(s, from) == SubSeq(s, from + 1, Len(s))

----------------------------------------------------------------------------
(* CharacterClass *)

is_ascii_digit(b) == b >= 48 /\ b <= 57

is_ascii_alphanumeric(b) ==
    \/ is_ascii_digit(b)
    \/ (b >= 65 /\ b <= 90)
    \/ (b >= 97 /\ b <= 122)

\* variant: an unknown escape byte is taken for the alphanumeric class
CharacterClass_get_type_lenient(b) ==
    IF b = CHARACTER_DIGIT THEN Ok(<<"Class", "Digit">>)
    ELSE Ok(<<"Class", "Alpha">>)

CharacterClass_get_type(b) ==
    IF b = CHARACTER_ALPHA THEN Ok(<<"Class", "Alpha">>)
    ELSE IF b = CHARACTER_DIGIT THEN Ok(<<"Class", "Digit">>)
    ELSE Err(b)

CharacterClass_matches(class, b) ==
    LET res == IF class = "Alpha" THEN is_ascii_alphanumeric(b)
               ELSE is_ascii_digit(b)
    IN  MatchResult_new(res, 2, 1)

----------------------------------------------------------------------------
(* CharacterType *)

CharacterType_get_type(pat) ==
    IF pat[1] = CHARACTER_CLASS
    THEN IF Len(pat) < 2 THEN Panic ELSE CharacterClass_get_type(pat[2])
    ELSE Ok(<<"Character", pat[1]>>)

CharacterType_matches(c, b) ==
    IF c[1] = "Character" THEN MatchResult_new(b = c[2], 1, 1)
    ELSE CharacterClass_matches(c[2], b)

CharacterType_len(c) == IF c[1] = "Character" THEN 1 ELSE 2

RECURSIVE CharacterType_match_count(_, _)
CharacterType_match_count(c, inp) ==
    IF inp = <<>> THEN 0
    ELSE IF MatchResult_is_matching(CharacterType_matches(c, Head(inp)))
         THEN 1 + CharacterType_match_count(c, Tail(inp))
         ELSE 0

----------------------------------------------------------------------------
(* MatchingType *)

MatchingType_get_type(pat) ==
    LET character == CharacterType_get_type(pat)
    IN  IF character.tag # "Ok" THEN character
        ELSE LET n == CharacterType_len(character.val)
             IN  IF Len(pat) > n
                 THEN IF pat[n + 1] = ONE_OR_MORE
                      THEN Ok(<<"Multiple", character.val>>)
                      ELSE IF pat[n + 1] = ZERO_OR_ONE
                           THEN Ok(<<"Optional", character.val>>)
                           ELSE Ok(<<"Simple", character.val>>)
                 ELSE Ok(<<"Simple", character.val>>)

\* variant: `+` consumes a single byte of the run
MatchingType_matches_one(t, inp) ==
    LET c == t[2]
    IN  IF t[1] = "Simple"
        THEN IF inp = <<>> THEN Negative ELSE CharacterType_matches(c, inp[1])
        ELSE LET matches == CharacterType_match_count(c, inp)
             IN  IF t[1] = "Multiple"
                 THEN MatchResult_new(matches > 0, CharacterType_len(c) + 1, 1)
                 ELSE MatchResult_new(matches < 2, CharacterType_len(c) + 1, matches)

\* variant: `?` accepts a run of two
MatchingType_matches_upto2(t, inp) ==
    LET c == t[2]
    IN  IF t[1] = "Simple"
        THEN IF inp = <<>> THEN Negative ELSE CharacterType_matches(c, inp[1])
        ELSE LET matches == CharacterType_match_count(c, inp)
             IN  IF t[1] = "Multiple"
                 THEN MatchResult_new(matches > 0, CharacterType_len(c) + 1, matches)
                 ELSE MatchResult_new(matches <= 2, CharacterType_len(c) + 1, matches)

MatchingType_matches(t, inp) ==
    LET c == t[2]
    IN  IF t[1] = "Simple"
        THEN IF inp = <<>> THEN Negative ELSE CharacterType_matches(c, inp[1])
        ELSE LET matches == CharacterType_match_count(c, inp)
             IN  IF t[1] = "Multiple"
                 THEN MatchResult_new(matches > 0, CharacterType_len(c) + 1, matches)
                 ELSE MatchResult_new(matches < 2, CharacterType_len(c) + 1, matches)

----------------------------------------------------------------------------
(* match_match_group *)

Contains(s, b) == \E k \in 1..Len(s) : s[k] = b

\* variant: the `^` of a negated group is not skipped
match_match_group_noskip(inp, group) ==
    IF group = <<>> THEN Panic
    ELSE LET is_negative == group[1] = START_ANCHOR
         IN  Ok(\E k \in 1..Len(group) : Contains(inp, group[k]) # is_negative)

match_match_group(inp, group) ==
    IF group = <<>> THEN Panic
    ELSE LET is_negative == group[1] = START_ANCHOR
             skip_chars == IF is_negative THEN 1 ELSE 0
         IN  Ok(\E k \in (skip_chars + 1)..Len(group) :
                    Contains(inp, group[k]) # is_negative)

----------------------------------------------------------------------------
(* match_characters_exact: one iteration of the loop body, and the whole loop *)

\* variant: a Positive step leaves the pattern offset where it was
ExactIteration_stuck(inp, pat, ii, pi) ==
    LET current_pattern == SliceFrom(pat, pi)
        current_input == SliceFrom(inp, ii)
        char_type == MatchingType_get_type(current_pattern)
    IN  IF char_type.tag # "Ok"
        THEN [tag |-> "Return", ret |-> char_type,
              step |-> [tag |-> "Raise", pi |-> pi, ii |-> ii]]
        ELSE LET r == MatchingType_matches(char_type.val, current_input)
                 step == [tag |-> "Step", pi |-> pi, ii |-> ii, mtype |-> char_type.val,
                          input |-> current_input, res |-> r]
             IN  IF r.tag = "Positive"
                 THEN [tag |-> "Continue", step |-> step,
                       pattern_index |-> pi,
                       input_index |-> ii + r.input_chars]
                 ELSE [tag |-> "Return", ret |-> Ok(FALSE), step |-> step]

ExactIteration(inp, pat, ii, pi) ==
    LET current_pattern == SliceFrom(pat, pi)
        current_input == SliceFrom(inp, ii)
        char_type == MatchingType_get_type(current_pattern)
    IN  IF char_type.tag # "Ok"
        THEN [tag |-> "Return", ret |-> char_type,
              step |-> [tag |-> "Raise", pi |-> pi, ii |-> ii]]
        ELSE LET r == MatchingType_matches(char_type.val, current_input)
                 step == [tag |-> "Step", pi |-> pi, ii |-> ii, mtype |-> char_type.val,
                          input |-> current_input, res |-> r]
             IN  IF r.tag = "Positive"
                 THEN [tag |-> "Continue", step |-> step,
                       pattern_index |-> pi + r.pattern_chars,
                       input_index |-> ii + r.input_chars]
                 ELSE [tag |-> "Return", ret |-> Ok(FALSE), step |-> step]

\* the loop run to its return: the value returned and the input offset reached
RECURSIVE ExactLoop(_, _, _, _)
ExactLoop(inp, pat, ii, pi) ==
    IF pi < Len(pat)
    THEN LET it == ExactIteration(inp, pat, ii, pi)
         IN  IF it.tag = "Return" THEN [ret |-> it.ret, input_index |-> ii]
             ELSE ExactLoop(inp, pat, it.input_index, it.pattern_index)
    ELSE [ret |-> Ok(TRUE), input_index |-> ii]

match_characters_exact(inp, pat) == ExactLoop(inp, pat, 0, 0).ret

----------------------------------------------------------------------------
(* Inputs *)

SeqsUpTo(S, n) == UNION {[1..k -> S] : k \in 0..n}

InputBytes == {LETTER_A, DIGIT_1}

PatternBytes == {LETTER_A, CHARACTER_DIGIT, CHARACTER_ALPHA, CHARACTER_CLASS, START_ANCHOR,
                 END_ANCHOR, ONE_OR_MORE, ZERO_OR_ONE}

GroupBytes == {LETTER_A, DIGIT_1, START_ANCHOR}

Inputs == SeqsUpTo(InputBytes, MaxInputLen)

PlainPatterns == SeqsUpTo(PatternBytes, MaxPatternLen)

GroupPatterns ==
    {<<OPEN_BRACKET>> \o s \o <<CLOSE_BRACKET>> : s \in SeqsUpTo(GroupBytes, MaxGroupLen)}

Patterns == PlainPatterns \cup GroupPatterns

----------------------------------------------------------------------------
(* State machine *)

Init ==
    /\ input_line \in Inputs
    /\ pattern \in Patterns
    /\ pc = "match_pattern"
    /\ caller = "none"
    /\ iter_i = 0
    /\ exact_offset = 0
    /\ exact_input = <<>>
    /\ exact_pattern = <<>>
    /\ input_index = 0
    /\ pattern_index = 0
    /\ exact_ret = None
    /\ steps = <<>>
    /\ attempts = <<>>
    /\ result = None

starts_with(s, b) == Len(s) > 0 /\ s[1] = b

ends_with(s, b) == Len(s) > 0 /\ s[Len(s)] = b

IsGroupPattern(p) == starts_with(p, OPEN_BRACKET) /\ ends_with(p, CLOSE_BRACKET)

\* pattern[1..count - 2]: panics when the range is reversed
GroupSlice(p) == IF Len(p) - 2 < 1 THEN Panic ELSE Ok(Slice(p, 1, Len(p) - 2))

ExactFrame == <<caller, iter_i, exact_offset, exact_input, exact_pattern,
                input_index, pattern_index, exact_ret, steps, attempts>>

Finish(r) ==
    /\ result' = r
    /\ pc' = "done"

\* match_pattern, the bracketed branch (match_match_group runs to completion)
MatchPatternGroup ==
    /\ pc = "match_pattern"
    /\ IsGroupPattern(pattern)
    /\ LET g == GroupSlice(pattern)
       IN  Finish(IF g.tag = "Ok" THEN match_match_group(input_line, g.val) ELSE Panic)
    /\ UNCHANGED <<input_line, pattern, ExactFrame>>

\* match_pattern, the other branch: call match_characters
MatchPatternCharacters ==
    /\ pc = "match_pattern"
    /\ ~IsGroupPattern(pattern)
    /\ pc' = "match_characters"
    /\ UNCHANGED <<input_line, pattern, ExactFrame, result>>

has_start_anchor(p) == p[1] = START_ANCHOR

has_end_anchor(p) == p[Len(p)] = END_ANCHOR

\* pattern_len after the two decrements of match_characters
StrippedLen(p) ==
    Len(p) - (IF has_start_anchor(p) THEN 1 ELSE 0) - (IF has_end_anchor(p) THEN 1 ELSE 0)

CallExact(who, off, inp, pat) ==
    /\ caller' = who
    /\ exact_offset' = off
    /\ exact_input' = inp
    /\ exact_pattern' = pat
    /\ input_index' = 0
    /\ pattern_index' = 0
    /\ exact_ret' = None
    /\ steps' = <<>>
    /\ pc' = "exact"

\* match_characters on the empty pattern: pattern.as_bytes()[0] is out of range
MatchCharactersEmpty ==
    /\ pc = "match_characters"
    /\ pattern = <<>>
    /\ Finish(Panic)
    /\ UNCHANGED <<input_line, pattern, ExactFrame>>

\* variant: the `^` is not stripped from the pattern given to the exact matcher
MatchCharactersStart_keepAnchor ==
    /\ pc = "match_characters"
    /\ pattern # <<>>
    /\ has_start_anchor(pattern)
    /\ CallExact("match_characters", 0, input_line, pattern)
    /\ UNCHANGED <<input_line, pattern, iter_i, attempts, result>>

\* match_characters, has_start_anchor
MatchCharactersStart ==
    /\ pc = "match_characters"
    /\ pattern # <<>>
    /\ has_start_anchor(pattern)
    /\ CallExact("match_characters", 0, input_line, SliceFrom(pattern, 1))
    /\ UNCHANGED <<input_line, pattern, iter_i, attempts, result>>

\* match_characters, has_end_anchor only: input_line.len() - pattern_len is a
\* usize subtraction, and the slice start must be in range
MatchCharactersEnd ==
    /\ pc = "match_characters"
    /\ pattern # <<>>
    /\ ~has_start_anchor(pattern)
    /\ has_end_anchor(pattern)
    /\ LET pattern_len == StrippedLen(pattern)
       IN  IF Len(input_line) < pattern_len
           THEN /\ Finish(Panic)
                /\ UNCHANGED ExactFrame
           ELSE /\ CallExact("match_characters", Len(input_line) - pattern_len,
                             SliceFrom(input_line, Len(input_line) - pattern_len),
                             Slice(pattern, 0, Len(pattern) - 1))
                /\ UNCHANGED <<iter_i, attempts, result>>
    /\ UNCHANGED <<input_line, pattern>>

\* match_characters, no anchor: call match_characters_iterate
MatchCharactersIterate ==
    /\ pc = "match_characters"
    /\ pattern # <<>>
    /\ ~has_start_anchor(pattern)
    /\ ~has_end_anchor(pattern)
    /\ pc' = "iterate"
    /\ iter_i' = 0
    /\ UNCHANGED <<input_line, pattern, caller, exact_offset, exact_input, exact_pattern,
                   input_index, pattern_index, exact_ret, steps, attempts, result>>

\* match_characters_iterate: the loop head
IterateNext ==
    /\ pc = "iterate"
    /\ IF iter_i < Len(input_line)
       THEN /\ CallExact("match_characters_iterate", iter_i,
                         SliceFrom(input_line, iter_i), pattern)
            /\ UNCHANGED <<iter_i, attempts, result>>
       ELSE /\ Finish(Ok(FALSE))
            /\ UNCHANGED ExactFrame
    /\ UNCHANGED <<input_line, pattern>>

\* match_characters_exact: one iteration of the while loop
ExactStep ==
    /\ pc = "exact"
    /\ pattern_index < Len(exact_pattern)
    /\ LET it == ExactIteration(exact_input, exact_pattern, input_index, pattern_index)
       IN  /\ steps' = Append(steps, it.step)
           /\ IF it.tag = "Continue"
              THEN /\ pattern_index' = it.pattern_index
                   /\ input_index' = it.input_index
                   /\ UNCHANGED <<pc, exact_ret>>
              ELSE /\ exact_ret' = it.ret
                   /\ pc' = "exact_return"
                   /\ UNCHANGED <<pattern_index, input_index>>
    /\ UNCHANGED <<input_line, pattern, caller, iter_i, exact_offset, exact_input,
                   exact_pattern, attempts, result>>

\* match_characters_exact: the loop condition fails, Ok(true)
ExactEnd ==
    /\ pc = "exact"
    /\ pattern_index >= Len(exact_pattern)
    /\ exact_ret' = Ok(TRUE)
    /\ pc' = "exact_return"
    /\ UNCHANGED <<input_line, pattern, caller, iter_i, exact_offset, exact_input,
                   exact_pattern, input_index, pattern_index, steps, attempts, result>>

Returned ==
    Append(attempts, [off |-> exact_offset, ret |-> exact_ret, steps |-> steps])

\* match_characters returns what match_characters_exact returned
ReturnToCharacters ==
    /\ pc = "exact_return"
    /\ caller = "match_characters"
    /\ attempts' = Returned
    /\ Finish(exact_ret)
    /\ UNCHANGED <<input_line, pattern, caller, iter_i, exact_offset, exact_input,
                   exact_pattern, input_index, pattern_index, exact_ret, steps>>

\* variant: the search returns after its first attempt
ReturnToIterate_noRetry ==
    /\ pc = "exact_return"
    /\ caller = "match_characters_iterate"
    /\ attempts' = Returned
    /\ Finish(exact_ret)
    /\ UNCHANGED <<input_line, pattern, caller, iter_i, exact_offset, exact_input,
                   exact_pattern, input_index, pattern_index, exact_ret, steps>>

\* match_characters_iterate: `if match_characters_exact(..)? { return Ok(true) }`
ReturnToIterate ==
    /\ pc = "exact_return"
    /\ caller = "match_characters_iterate"
    /\ attempts' = Returned
    /\ IF IsOk(exact_ret, FALSE)
       THEN /\ iter_i' = iter_i + 1
            /\ pc' = "iterate"
            /\ UNCHANGED result
       ELSE /\ Finish(exact_ret)
            /\ UNCHANGED iter_i
    /\ UNCHANGED <<input_line, pattern, caller, exact_offset, exact_input,
                   exact_pattern, input_index, pattern_index, exact_ret, steps>>

Next ==
    \/ MatchPatternGroup
    \/ MatchPatternCharacters
    \/ MatchCharactersEmpty
    \/ MatchCharactersStart
    \/ MatchCharactersEnd
    \/ MatchCharactersIterate
    \/ IterateNext
    \/ ExactStep
    \/ ExactEnd
    \/ ReturnToCharacters
    \/ ReturnToIterate

Spec == Init /\ [][Next]_vars

Done == pc = "done"

TypeOK ==
    /\ pc \in {"match_pattern", "match_characters", "iterate", "exact", "exact_return", "done"}
    /\ result.tag \in {"None", "Ok", "Err", "Panic"}
    /\ (result.tag # "None") = Done
    /\ input_index <= Len(exact_input)
    /\ pattern_index <= Len(exact_pattern)

----------------------------------------------------------------------------
(* Shapes of patterns *)

\* positions k of p where `\` is followed by a byte other than `w` or `d`
BadEscapes(p) ==
    {k \in 1..(Len(p) - 1) :
        p[k] = CHARACTER_CLASS /\ p[k + 1] \notin {CHARACTER_ALPHA, CHARACTER_DIGIT}}

\* the characters S between the brackets of a pattern [S]
Listed(p) == Slice(p, 1, Len(p) - 1)

IsPositiveGroup(p) ==
    IsGroupPattern(p) /\ Len(p) >= 3 /\ Listed(p)[1] # START_ANCHOR

\* a pattern [^S] with S non-empty; NegListed is S
IsNegativeGroup(p) ==
    IsGroupPattern(p) /\ Len(p) >= 4 /\ Listed(p)[1] = START_ANCHOR

NegListed(p) == Slice(p, 2, Len(p) - 1)

IsStartAnchored(p) == ~IsGroupPattern(p) /\ p # <<>> /\ has_start_anchor(p)

IsEndAnchoredOnly(p) ==
    ~IsGroupPattern(p) /\ p # <<>> /\ ~has_start_anchor(p) /\ has_end_anchor(p)

IsUnanchored(p) ==
    ~IsGroupPattern(p) /\ p # <<>> /\ ~has_start_anchor(p) /\ ~has_end_anchor(p)

\* the exact matcher succeeds on s and leaves no byte of s unconsumed
FullMatch(s, p) ==
    LET r == ExactLoop(s, p, 0, 0)
    IN  IsOk(r.ret, TRUE) /\ r.input_index = Len(s)

----------------------------------------------------------------------------
(* C1 *)

\* C1 (as claimed): whenever the pattern contains a `\` followed by a byte
\* other than `w` or `d`, match_pattern returns the classification error and
\* never a boolean, whatever the input line (stated for the calls that return).
C1_EveryLineErrors ==
    (Done /\ BadEscapes(pattern) # {} /\ result.tag # "Panic") => result.tag = "Err"

\* C1 (amended): a classification error raised in an exact-match attempt ends
\* the call and is the value match_pattern returns, unchanged; match_pattern
\* returns an error only for a byte that follows a `\` in the pattern and is
\* neither `w` nor `d`; a non-bracketed pattern holding such an escape never
\* yields true; and the error is returned whenever the escape is the first
\* element an attempt classifies: for every line when the pattern is `^`
\* followed by the escape, for every non-empty line when an unanchored pattern
\* starts with it.  A boolean is returned when no attempt reaches the escape.
C1_ErrorPropagates ==
    /\ \A k \in 1..Len(attempts) :
          attempts[k].ret.tag = "Err" =>
              /\ k = Len(attempts)
              /\ Done
              /\ result = attempts[k].ret
    /\ (Done /\ result.tag = "Err") =>
          /\ Len(attempts) > 0
          /\ \E k \in BadEscapes(pattern) : result.val = pattern[k + 1]
    /\ (Done /\ BadEscapes(pattern) # {} /\ ~IsGroupPattern(pattern)) =>
          ~IsOk(result, TRUE)
    /\ (Done /\ IsStartAnchored(pattern) /\ 2 \in BadEscapes(pattern)) =>
          result = Err(pattern[3])
    /\ (Done /\ IsUnanchored(pattern) /\ 1 \in BadEscapes(pattern)
             /\ input_line # <<>>) =>
          result = Err(pattern[2])

\* an unanchored pattern that starts with an unrecognized escape has returned
\* the error on a non-empty line
C1_Witness ==
    /\ Done
    /\ IsUnanchored(pattern)
    /\ 1 \in BadEscapes(pattern)
    /\ input_line # <<>>
    /\ result.tag = "Err"
    /\ Len(attempts) = 1

----------------------------------------------------------------------------
(* C2 *)

\* C2 (as claimed): for a pattern [S], S non-empty and not starting with `^`,
\* match_pattern is true iff some character listed in S, the last one
\* included, occurs in the line.
C2_AnyListedOccurs ==
    (Done /\ IsPositiveGroup(pattern)) =>
        IsOk(result, \E k \in 1..Len(Listed(pattern)) :
                        Contains(input_line, Listed(pattern)[k]))

----------------------------------------------------------------------------
(* C3 *)

\* C3 (as claimed): for a pattern [^S], S non-empty, match_pattern is true iff
\* none of the characters listed in S occurs in the line.
C3_NoneListedOccurs ==
    (Done /\ IsNegativeGroup(pattern)) =>
        IsOk(result, \A k \in 1..Len(NegListed(pattern)) :
                        ~Contains(input_line, NegListed(pattern)[k]))

\* C3 (amended): for a pattern [^S], S non-empty, match_pattern is true iff at
\* least one of the characters of S other than its last one does not occur in
\* the line (so it is false when S is a single character).
C3_SomeListedAbsent ==
    (Done /\ IsNegativeGroup(pattern)) =>
        IsOk(result, \E k \in 1..(Len(NegListed(pattern)) - 1) :
                        ~Contains(input_line, NegListed(pattern)[k]))

\* a negated group whose first listed character occurs in the line and whose
\* second does not has matched
C3_Witness ==
    /\ Done
    /\ IsNegativeGroup(pattern)
    /\ Len(NegListed(pattern)) = 3
    /\ Contains(input_line, NegListed(pattern)[1])
    /\ ~Contains(input_line, NegListed(pattern)[2])
    /\ IsOk(result, TRUE)

----------------------------------------------------------------------------
(* C4, C5, C6: the end anchor *)

\* the pattern with its anchors stripped
Stripped(p) ==
    Slice(p, IF has_start_anchor(p) THEN 1 ELSE 0,
             IF has_end_anchor(p) THEN Len(p) - 1 ELSE Len(p))

\* C4 (as claimed): for a pattern p$ with no leading `^`, match_pattern is true
\* iff some suffix of the line is matched by p in full: the exact matcher
\* succeeds on the suffix and consumes all of it.  Stated for the calls that
\* return a boolean.
C4_EndAnchorMatchesSuffix ==
    (Done /\ IsEndAnchoredOnly(pattern) /\ result.tag = "Ok") =>
        (result.val <=> \E i \in 0..Len(input_line) :
                           FullMatch(SliceFrom(input_line, i), Stripped(pattern)))

\* C5 (as claimed): for a pattern p$ with no leading `^` and a line shorter
\* than p, match_pattern returns false.
C5_ShortLineIsFalse ==
    (Done /\ IsEndAnchoredOnly(pattern)
          /\ Len(input_line) < StrippedLen(pattern)) =>
        IsOk(result, FALSE)

\* C6 (as claimed): for a pattern ^p$, match_pattern is true iff p matches the
\* whole line, from offset 0 through the last byte.
C6_BothAnchorsWholeLine ==
    (Done /\ IsStartAnchored(pattern) /\ Len(pattern) >= 2 /\ has_end_anchor(pattern)) =>
        IsOk(result, FullMatch(input_line, Stripped(pattern)))

----------------------------------------------------------------------------
(* C7: the start anchor *)

\* the exact matcher succeeds on the line from offset i
MatchesAt(i, p) == IsOk(match_characters_exact(SliceFrom(input_line, i), p), TRUE)

\* C7: for a pattern ^p without trailing `$`, match_pattern makes exactly one
\* exact-match attempt, at input offset 0 and against p; it is true iff that
\* attempt succeeds, and false whenever p matches only from a later offset.
C7_StartAnchorOneAttempt ==
    (Done /\ IsStartAnchored(pattern) /\ ~has_end_anchor(pattern)) =>
        LET p == SliceFrom(pattern, 1)
        IN  /\ Len(attempts) = 1
            /\ attempts[1].off = 0
            /\ exact_input = input_line
            /\ exact_pattern = p
            /\ IsOk(result, TRUE) <=> MatchesAt(0, p)
            /\ (~MatchesAt(0, p) /\ \E i \in 1..Len(input_line) : MatchesAt(i, p))
                   => IsOk(result, FALSE)

\* a start-anchored pattern that matches only from a later offset has
\* returned false
C7_Witness ==
    /\ Done
    /\ IsStartAnchored(pattern)
    /\ ~has_end_anchor(pattern)
    /\ Len(pattern) >= 2
    /\ ~MatchesAt(0, SliceFrom(pattern, 1))
    /\ \E i \in 1..(Len(input_line) - 1) : MatchesAt(i, SliceFrom(pattern, 1))
    /\ IsOk(result, FALSE)

----------------------------------------------------------------------------
(* C8: the unanchored search *)

\* the value the exact matcher returns on the line from offset i
ExactAt(i) == match_characters_exact(SliceFrom(input_line, i), pattern)

Positions == 0..(Len(input_line) - 1)

\* C8 (as claimed): for a non-empty, non-bracketed pattern with neither anchor,
\* match_pattern is true iff the exact matcher succeeds at some start position
\* of the line, and false if it succeeds at none (stated for the calls that
\* return).
C8_TrueIffSomePositionElseFalse ==
    (Done /\ IsUnanchored(pattern) /\ result.tag # "Panic") =>
        /\ IsOk(result, TRUE) <=> \E i \in Positions : IsOk(ExactAt(i), TRUE)
        /\ (~\E i \in Positions : IsOk(ExactAt(i), TRUE)) => IsOk(result, FALSE)

\* C8 (amended): for a non-empty, non-bracketed pattern with neither anchor,
\* the start positions are tried left to right from 0, one attempt each, up
\* to the first attempt that does not return false; match_pattern is true iff
\* the exact matcher succeeds at some position, false iff it returns false at
\* every position, and otherwise the outcome is that of the first attempt
\* that did not return false (the classification error, or the abort on a
\* pattern ending in a lone `\`).  For a pattern that is one literal byte
\* (not `\`) it is true iff the line contains that byte.
C8_UnanchoredSearch ==
    (Done /\ IsUnanchored(pattern)) =>
        /\ \A k \in 1..Len(attempts) :
              /\ attempts[k].off = k - 1
              /\ attempts[k].ret = ExactAt(k - 1)
              /\ k < Len(attempts) => IsOk(attempts[k].ret, FALSE)
        /\ IsOk(result, TRUE) <=> \E i \in Positions : IsOk(ExactAt(i), TRUE)
        /\ IsOk(result, FALSE) <=> \A i \in Positions : IsOk(ExactAt(i), FALSE)
        /\ IsOk(result, FALSE) => Len(attempts) = Len(input_line)
        /\ ~IsOk(result, FALSE) =>
              /\ Len(attempts) >= 1
              /\ result = attempts[Len(attempts)].ret
        /\ (Len(pattern) = 1 /\ pattern[1] # CHARACTER_CLASS) =>
              IsOk(result, Contains(input_line, pattern[1]))

\* an unanchored search has returned true at its third position after two
\* positions that failed
C8_Witness ==
    /\ Done
    /\ IsUnanchored(pattern)
    /\ Len(attempts) = 3
    /\ IsOk(attempts[1].ret, FALSE)
    /\ IsOk(attempts[2].ret, FALSE)
    /\ IsOk(result, TRUE)

----------------------------------------------------------------------------
(* C9, C10: the quantified steps *)

\* the loop iterations of every call of the exact matcher made so far
StepSeqs == {steps} \cup {attempts[k].steps : k \in 1..Len(attempts)}

\* a byte satisfies an element
Satisfies(c, b) ==
    IF c[1] = "Character" THEN b = c[2]
    ELSE IF c[2] = "Alpha" THEN is_ascii_alphanumeric(b) ELSE is_ascii_digit(b)

\* the length of the maximal run of leading bytes of inp that satisfy c
Run(c, inp) ==
    CHOOSE n \in 0..Len(inp) :
        /\ \A k \in 1..n : Satisfies(c, inp[k])
        /\ n < Len(inp) => ~Satisfies(c, inp[n + 1])

Width(c) == IF c[1] = "Character" THEN 1 ELSE 2

IsStepOf(st, j, kind) == st[j].tag = "Step" /\ st[j].mtype[1] = kind

\* iteration j of st was Positive and moved both offsets by what it consumed
Advanced(st, j, pattern_chars, input_chars) ==
    /\ st[j].res = Positive(pattern_chars, input_chars)
    /\ j < Len(st) =>
          /\ st[j + 1].pi = st[j].pi + pattern_chars
          /\ st[j + 1].ii = st[j].ii + input_chars
    /\ (j = Len(st) /\ st = steps) =>
          /\ pattern_index = st[j].pi + pattern_chars
          /\ input_index = st[j].ii + input_chars

\* iteration j of st was Negative and ended its attempt
Failed(st, j) ==
    /\ st[j].res = Negative
    /\ j = Len(st)

\* the attempts that have returned after a Negative step returned false, and
\* no attempt ran a pattern offset twice
NoRetry ==
    /\ \A k \in 1..Len(attempts) :
          LET st == attempts[k].steps
          IN  (st # <<>> /\ st[Len(st)].tag = "Step" /\ st[Len(st)].res = Negative)
                  => IsOk(attempts[k].ret, FALSE)
    /\ \A st \in StepSeqs : \A i, j \in 1..Len(st) : i < j => st[i].pi < st[j].pi

\* the pattern a+a and the line aaa
APlusA == <<LETTER_A, ONE_OR_MORE, LETTER_A>>

AAA == <<LETTER_A, LETTER_A, LETTER_A>>

\* C9: a OneOrMore step fails iff the run of leading input bytes satisfying
\* its element is zero; otherwise it consumes the whole maximal run and
\* (element width + 1) pattern bytes in one step.  The step is not revisited:
\* when a later element fails the attempt returns false, and the exact
\* attempt of a+a at offset 0 of aaa fails.
C9_OneOrMoreGreedy ==
    /\ \A st \in StepSeqs : \A j \in 1..Len(st) :
          IsStepOf(st, j, "Multiple") =>
              LET c == st[j].mtype[2]
                  run == Run(c, st[j].input)
              IN  IF run = 0 THEN Failed(st, j)
                  ELSE Advanced(st, j, Width(c) + 1, run)
    /\ NoRetry
    /\ (pattern = APlusA /\ input_line = AAA) =>
          /\ \A k \in 1..Len(attempts) : IsOk(attempts[k].ret, FALSE)
          /\ Done => IsOk(result, FALSE)

\* the attempt of a+a at offset 0 of aaa has returned false after the `+` step
\* consumed all three bytes
C9_Witness ==
    /\ pattern = APlusA
    /\ input_line = AAA
    /\ Len(attempts) >= 1
    /\ attempts[1].off = 0
    /\ attempts[1].steps[1].res = Positive(2, 3)
    /\ IsOk(attempts[1].ret, FALSE)

\* C10: a ZeroOrOne step succeeds iff the run of leading input bytes satisfying
\* its element is 0 or 1 (the remaining input may be empty); it then consumes
\* min(run, 1) input bytes and (element width + 1) pattern bytes; it is
\* Negative when the run is 2 or more.
C10_ZeroOrOne ==
    \A st \in StepSeqs : \A j \in 1..Len(st) :
        IsStepOf(st, j, "Optional") =>
            LET c == st[j].mtype[2]
                run == Run(c, st[j].input)
            IN  IF run >= 2 THEN Failed(st, j)
                ELSE Advanced(st, j, Width(c) + 1, IF run < 1 THEN run ELSE 1)

\* a ZeroOrOne step has succeeded on an empty remaining input, after an
\* earlier step consumed the line
C10_Witness ==
    /\ pc = "exact"
    /\ Len(steps) = 2
    /\ IsStepOf(steps, 2, "Optional")
    /\ steps[2].input = <<>>
    /\ steps[2].ii > 0
    /\ steps[2].res.tag = "Positive"
    /\ input_index = steps[2].ii

----------------------------------------------------------------------------
(* C11: the offsets of one exact-match attempt *)

\* every `\` of p is followed by another byte
EveryEscapeHasByte(p) == \A k \in 1..Len(p) : p[k] = CHARACTER_CLASS => k < Len(p)

InAttempt == pc \in {"exact", "exact_return"}

\* the offsets the attempt had after iteration j of steps
PatternAfter(j) == IF j < Len(steps) THEN steps[j + 1].pi ELSE pattern_index

InputAfter(j) == IF j < Len(steps) THEN steps[j + 1].ii ELSE input_index

IsPositiveStep(j) == steps[j].tag = "Step" /\ steps[j].res.tag = "Positive"

IsNegativeStep(j) == steps[j].tag = "Step" /\ steps[j].res.tag = "Negative"

\* C11: within one exact-match attempt on a pattern in which every `\` is
\* followed by another byte, neither offset ever decreases, every Positive
\* step advances the pattern offset by at least 1, and after every step
\* pattern offset <= pattern length and input offset <= input length; so the
\* loop runs at most (pattern length) iterations before it returns; it
\* returns true exactly when the pattern offset has reached the pattern
\* length, and false on the first Negative step.
C11_OffsetsForwardAndBounded ==
    (InAttempt /\ EveryEscapeHasByte(exact_pattern)) =>
        /\ \A j \in 1..Len(steps) :
              /\ steps[j].pi < Len(exact_pattern)
              /\ steps[j].ii <= Len(exact_input)
              /\ PatternAfter(j) >= steps[j].pi
              /\ InputAfter(j) >= steps[j].ii
              /\ PatternAfter(j) <= Len(exact_pattern)
              /\ InputAfter(j) <= Len(exact_input)
              /\ IsPositiveStep(j) => PatternAfter(j) >= steps[j].pi + 1
              /\ j < Len(steps) => IsPositiveStep(j)
        /\ (steps # <<>>) => (steps[1].pi = 0 /\ steps[1].ii = 0)
        /\ (steps = <<>>) => (pattern_index = 0 /\ input_index = 0)
        /\ Len(steps) <= Len(exact_pattern)
        /\ exact_ret.tag # "Panic"
        /\ (pc = "exact") => \A j \in 1..Len(steps) : IsPositiveStep(j)
        /\ (pc = "exact_return") =>
              /\ IsOk(exact_ret, TRUE) <=> pattern_index = Len(exact_pattern)
              /\ IsOk(exact_ret, TRUE) => \A j \in 1..Len(steps) : IsPositiveStep(j)
              /\ IsOk(exact_ret, FALSE) <=>
                    (steps # <<>> /\ IsNegativeStep(Len(steps)))

\* an attempt has returned false on its third step, a Negative one, after two
\* Positive steps that moved both offsets forward
C11_Witness ==
    /\ pc = "exact_return"
    /\ EveryEscapeHasByte(exact_pattern)
    /\ Len(steps) = 3
    /\ IsNegativeStep(3)
    /\ steps[3].pi = 2
    /\ steps[3].ii = 2
    /\ IsOk(exact_ret, FALSE)

====
